---- MODULE Spec2Model ----
(***************************************************************************)
(* NSE historical derivatives data scraper (src/nse_data_scraper.py).      *)
(*                                                                         *)
(* The model follows main(): construct an NSEDataScraper, call             *)
(* process_year inside try, close() in finally.  process_year is modelled  *)
(* step by step: initialize_session, create_folder_structure,              *)
(* get_expiry_dates, and one loop iteration per expiry                     *)
(* (calculate_date_range, download_csv_data).                              *)
(*                                                                         *)
(* Texts (expiry dates, query dates, file names) are sequences of one      *)
(* character strings, so that parsing, formatting and str.replace are      *)
(* computed character by character as the code computes them.              *)
(***************************************************************************)
EXTENDS Integers, Sequences, FiniteSets, TLC

VARIABLES
    pc,             \* position of the caller / process_year
    calls,          \* number of process_year calls made on the scraper
    year,           \* the year argument of process_year
    symbol,         \* the symbol argument of process_year
    test_single,    \* the test_single argument of process_year
    init_ok,        \* what initialize_session returned: "none", "True", "False"
    cookies,        \* self.session.cookies: set of <<name, value>>
    headers_set,    \* whether self.session.headers was updated
    builds,         \* number of initialize_session calls on the scraper
    requests,       \* HTTP GET requests the current process_year call issued
                    \* through self.session, in order
    resolved,       \* what get_expiry_dates returned to process_year
    expiry_dates,   \* local expiry_dates of process_year (after [:1])
    idx,            \* number of loop iterations of process_year already done
    success_count,  \* local success_count of process_year
    dirs,           \* directories that exist on disk
    files,          \* files on disk: [path |-> ..., content |-> ...] records
    ret,            \* how process_year ended: "none", "True", "False", "raise"
                    \* (an Exception) or "interrupt" (KeyboardInterrupt)
    driver,         \* self.driver: "running" or "quit"
    session,        \* self.session: "open" or "closed"
    log,            \* one record per loop iteration of the current call
    probe           \* input/output of a function applied on its own

vars == <<pc, calls, year, symbol, test_single, init_ok, cookies, headers_set, builds, requests,
          resolved, expiry_dates, idx, success_count, dirs, files, ret, driver, session,
          log, probe>>

runVars == <<pc, calls, year, symbol, test_single, init_ok, cookies, headers_set, builds, requests,
             resolved, expiry_dates, idx, success_count, dirs, files, ret, driver, session,
             log>>

(***************************************************************************)
(* Characters and texts                                                    *)
(***************************************************************************)
\* A text is a sequence of characters.  An ASCII character is written as
\* itself, any other character by its code point: "U+0662".
DigitChars == <<"0", "1", "2", "3", "4", "5", "6", "7", "8", "9">>

\* [0-9]
IsAsciiDigit(c) == \E n \in 1..10 : DigitChars[n] = c

\* the decimal digits outside ASCII (Unicode category Nd, ten per script in
\* the order 0..9): the regex class \d of strptime matches them and int()
\* reads them
UnicodeDigits ==
    <<<<"U+0660", "U+0661", "U+0662", "U+0663", "U+0664", "U+0665", "U+0666", "U+0667", "U+0668", "U+0669">>,
     <<"U+06F0", "U+06F1", "U+06F2", "U+06F3", "U+06F4", "U+06F5", "U+06F6", "U+06F7", "U+06F8", "U+06F9">>,
     <<"U+07C0", "U+07C1", "U+07C2", "U+07C3", "U+07C4", "U+07C5", "U+07C6", "U+07C7", "U+07C8", "U+07C9">>,
     <<"U+0966", "U+0967", "U+0968", "U+0969", "U+096A", "U+096B", "U+096C", "U+096D", "U+096E", "U+096F">>,
     <<"U+09E6", "U+09E7", "U+09E8", "U+09E9", "U+09EA", "U+09EB", "U+09EC", "U+09ED", "U+09EE", "U+09EF">>,
     <<"U+0A66", "U+0A67", "U+0A68", "U+0A69", "U+0A6A", "U+0A6B", "U+0A6C", "U+0A6D", "U+0A6E", "U+0A6F">>,
     <<"U+0AE6", "U+0AE7", "U+0AE8", "U+0AE9", "U+0AEA", "U+0AEB", "U+0AEC", "U+0AED", "U+0AEE", "U+0AEF">>,
     <<"U+0B66", "U+0B67", "U+0B68", "U+0B69", "U+0B6A", "U+0B6B", "U+0B6C", "U+0B6D", "U+0B6E", "U+0B6F">>,
     <<"U+0BE6", "U+0BE7", "U+0BE8", "U+0BE9", "U+0BEA", "U+0BEB", "U+0BEC", "U+0BED", "U+0BEE", "U+0BEF">>,
     <<"U+0C66", "U+0C67", "U+0C68", "U+0C69", "U+0C6A", "U+0C6B", "U+0C6C", "U+0C6D", "U+0C6E", "U+0C6F">>,
     <<"U+0CE6", "U+0CE7", "U+0CE8", "U+0CE9", "U+0CEA", "U+0CEB", "U+0CEC", "U+0CED", "U+0CEE", "U+0CEF">>,
     <<"U+0D66", "U+0D67", "U+0D68", "U+0D69", "U+0D6A", "U+0D6B", "U+0D6C", "U+0D6D", "U+0D6E", "U+0D6F">>,
     <<"U+0DE6", "U+0DE7", "U+0DE8", "U+0DE9", "U+0DEA", "U+0DEB", "U+0DEC", "U+0DED", "U+0DEE", "U+0DEF">>,
     <<"U+0E50", "U+0E51", "U+0E52", "U+0E53", "U+0E54", "U+0E55", "U+0E56", "U+0E57", "U+0E58", "U+0E59">>,
     <<"U+0ED0", "U+0ED1", "U+0ED2", "U+0ED3", "U+0ED4", "U+0ED5", "U+0ED6", "U+0ED7", "U+0ED8", "U+0ED9">>,
     <<"U+0F20", "U+0F21", "U+0F22", "U+0F23", "U+0F24", "U+0F25", "U+0F26", "U+0F27", "U+0F28", "U+0F29">>,
     <<"U+1040", "U+1041", "U+1042", "U+1043", "U+1044", "U+1045", "U+1046", "U+1047", "U+1048", "U+1049">>,
     <<"U+1090", "U+1091", "U+1092", "U+1093", "U+1094", "U+1095", "U+1096", "U+1097", "U+1098", "U+1099">>,
     <<"U+17E0", "U+17E1", "U+17E2", "U+17E3", "U+17E4", "U+17E5", "U+17E6", "U+17E7", "U+17E8", "U+17E9">>,
     <<"U+1810", "U+1811", "U+1812", "U+1813", "U+1814", "U+1815", "U+1816", "U+1817", "U+1818", "U+1819">>,
     <<"U+1946", "U+1947", "U+1948", "U+1949", "U+194A", "U+194B", "U+194C", "U+194D", "U+194E", "U+194F">>,
     <<"U+19D0", "U+19D1", "U+19D2", "U+19D3", "U+19D4", "U+19D5", "U+19D6", "U+19D7", "U+19D8", "U+19D9">>,
     <<"U+1A80", "U+1A81", "U+1A82", "U+1A83", "U+1A84", "U+1A85", "U+1A86", "U+1A87", "U+1A88", "U+1A89">>,
     <<"U+1A90", "U+1A91", "U+1A92", "U+1A93", "U+1A94", "U+1A95", "U+1A96", "U+1A97", "U+1A98", "U+1A99">>,
     <<"U+1B50", "U+1B51", "U+1B52", "U+1B53", "U+1B54", "U+1B55", "U+1B56", "U+1B57", "U+1B58", "U+1B59">>,
     <<"U+1BB0", "U+1BB1", "U+1BB2", "U+1BB3", "U+1BB4", "U+1BB5", "U+1BB6", "U+1BB7", "U+1BB8", "U+1BB9">>,
     <<"U+1C40", "U+1C41", "U+1C42", "U+1C43", "U+1C44", "U+1C45", "U+1C46", "U+1C47", "U+1C48", "U+1C49">>,
     <<"U+1C50", "U+1C51", "U+1C52", "U+1C53", "U+1C54", "U+1C55", "U+1C56", "U+1C57", "U+1C58", "U+1C59">>,
     <<"U+A620", "U+A621", "U+A622", "U+A623", "U+A624", "U+A625", "U+A626", "U+A627", "U+A628", "U+A629">>,
     <<"U+A8D0", "U+A8D1", "U+A8D2", "U+A8D3", "U+A8D4", "U+A8D5", "U+A8D6", "U+A8D7", "U+A8D8", "U+A8D9">>,
     <<"U+A900", "U+A901", "U+A902", "U+A903", "U+A904", "U+A905", "U+A906", "U+A907", "U+A908", "U+A909">>,
     <<"U+A9D0", "U+A9D1", "U+A9D2", "U+A9D3", "U+A9D4", "U+A9D5", "U+A9D6", "U+A9D7", "U+A9D8", "U+A9D9">>,
     <<"U+A9F0", "U+A9F1", "U+A9F2", "U+A9F3", "U+A9F4", "U+A9F5", "U+A9F6", "U+A9F7", "U+A9F8", "U+A9F9">>,
     <<"U+AA50", "U+AA51", "U+AA52", "U+AA53", "U+AA54", "U+AA55", "U+AA56", "U+AA57", "U+AA58", "U+AA59">>,
     <<"U+ABF0", "U+ABF1", "U+ABF2", "U+ABF3", "U+ABF4", "U+ABF5", "U+ABF6", "U+ABF7", "U+ABF8", "U+ABF9">>,
     <<"U+FF10", "U+FF11", "U+FF12", "U+FF13", "U+FF14", "U+FF15", "U+FF16", "U+FF17", "U+FF18", "U+FF19">>,
     <<"U+104A0", "U+104A1", "U+104A2", "U+104A3", "U+104A4", "U+104A5", "U+104A6", "U+104A7", "U+104A8", "U+104A9">>,
     <<"U+10D30", "U+10D31", "U+10D32", "U+10D33", "U+10D34", "U+10D35", "U+10D36", "U+10D37", "U+10D38", "U+10D39">>,
     <<"U+11066", "U+11067", "U+11068", "U+11069", "U+1106A", "U+1106B", "U+1106C", "U+1106D", "U+1106E", "U+1106F">>,
     <<"U+110F0", "U+110F1", "U+110F2", "U+110F3", "U+110F4", "U+110F5", "U+110F6", "U+110F7", "U+110F8", "U+110F9">>,
     <<"U+11136", "U+11137", "U+11138", "U+11139", "U+1113A", "U+1113B", "U+1113C", "U+1113D", "U+1113E", "U+1113F">>,
     <<"U+111D0", "U+111D1", "U+111D2", "U+111D3", "U+111D4", "U+111D5", "U+111D6", "U+111D7", "U+111D8", "U+111D9">>,
     <<"U+112F0", "U+112F1", "U+112F2", "U+112F3", "U+112F4", "U+112F5", "U+112F6", "U+112F7", "U+112F8", "U+112F9">>,
     <<"U+11450", "U+11451", "U+11452", "U+11453", "U+11454", "U+11455", "U+11456", "U+11457", "U+11458", "U+11459">>,
     <<"U+114D0", "U+114D1", "U+114D2", "U+114D3", "U+114D4", "U+114D5", "U+114D6", "U+114D7", "U+114D8", "U+114D9">>,
     <<"U+11650", "U+11651", "U+11652", "U+11653", "U+11654", "U+11655", "U+11656", "U+11657", "U+11658", "U+11659">>,
     <<"U+116C0", "U+116C1", "U+116C2", "U+116C3", "U+116C4", "U+116C5", "U+116C6", "U+116C7", "U+116C8", "U+116C9">>,
     <<"U+11730", "U+11731", "U+11732", "U+11733", "U+11734", "U+11735", "U+11736", "U+11737", "U+11738", "U+11739">>,
     <<"U+118E0", "U+118E1", "U+118E2", "U+118E3", "U+118E4", "U+118E5", "U+118E6", "U+118E7", "U+118E8", "U+118E9">>,
     <<"U+11950", "U+11951", "U+11952", "U+11953", "U+11954", "U+11955", "U+11956", "U+11957", "U+11958", "U+11959">>,
     <<"U+11C50", "U+11C51", "U+11C52", "U+11C53", "U+11C54", "U+11C55", "U+11C56", "U+11C57", "U+11C58", "U+11C59">>,
     <<"U+11D50", "U+11D51", "U+11D52", "U+11D53", "U+11D54", "U+11D55", "U+11D56", "U+11D57", "U+11D58", "U+11D59">>,
     <<"U+11DA0", "U+11DA1", "U+11DA2", "U+11DA3", "U+11DA4", "U+11DA5", "U+11DA6", "U+11DA7", "U+11DA8", "U+11DA9">>,
     <<"U+16A60", "U+16A61", "U+16A62", "U+16A63", "U+16A64", "U+16A65", "U+16A66", "U+16A67", "U+16A68", "U+16A69">>,
     <<"U+16AC0", "U+16AC1", "U+16AC2", "U+16AC3", "U+16AC4", "U+16AC5", "U+16AC6", "U+16AC7", "U+16AC8", "U+16AC9">>,
     <<"U+16B50", "U+16B51", "U+16B52", "U+16B53", "U+16B54", "U+16B55", "U+16B56", "U+16B57", "U+16B58", "U+16B59">>,
     <<"U+1D7CE", "U+1D7CF", "U+1D7D0", "U+1D7D1", "U+1D7D2", "U+1D7D3", "U+1D7D4", "U+1D7D5", "U+1D7D6", "U+1D7D7">>,
     <<"U+1D7D8", "U+1D7D9", "U+1D7DA", "U+1D7DB", "U+1D7DC", "U+1D7DD", "U+1D7DE", "U+1D7DF", "U+1D7E0", "U+1D7E1">>,
     <<"U+1D7E2", "U+1D7E3", "U+1D7E4", "U+1D7E5", "U+1D7E6", "U+1D7E7", "U+1D7E8", "U+1D7E9", "U+1D7EA", "U+1D7EB">>,
     <<"U+1D7EC", "U+1D7ED", "U+1D7EE", "U+1D7EF", "U+1D7F0", "U+1D7F1", "U+1D7F2", "U+1D7F3", "U+1D7F4", "U+1D7F5">>,
     <<"U+1D7F6", "U+1D7F7", "U+1D7F8", "U+1D7F9", "U+1D7FA", "U+1D7FB", "U+1D7FC", "U+1D7FD", "U+1D7FE", "U+1D7FF">>,
     <<"U+1E140", "U+1E141", "U+1E142", "U+1E143", "U+1E144", "U+1E145", "U+1E146", "U+1E147", "U+1E148", "U+1E149">>,
     <<"U+1E2F0", "U+1E2F1", "U+1E2F2", "U+1E2F3", "U+1E2F4", "U+1E2F5", "U+1E2F6", "U+1E2F7", "U+1E2F8", "U+1E2F9">>,
     <<"U+1E950", "U+1E951", "U+1E952", "U+1E953", "U+1E954", "U+1E955", "U+1E956", "U+1E957", "U+1E958", "U+1E959">>,
     <<"U+1FBF0", "U+1FBF1", "U+1FBF2", "U+1FBF3", "U+1FBF4", "U+1FBF5", "U+1FBF6", "U+1FBF7", "U+1FBF8", "U+1FBF9">>>>

UnicodeDigitAt(c, n) == \E r \in 1..Len(UnicodeDigits) : UnicodeDigits[r][n] = c

\* \d
IsDigit(c) == IsAsciiDigit(c) \/ \E n \in 1..10 : UnicodeDigitAt(c, n)

\* int(c)
DigitVal(c) ==
    IF IsAsciiDigit(c) THEN (CHOOSE n \in 1..10 : DigitChars[n] = c) - 1
    ELSE (CHOOSE n \in 1..10 : UnicodeDigitAt(c, n)) - 1

LowerChars == <<"a", "b", "c", "d", "e", "f", "g", "h", "i", "j", "k", "l", "m",
                "n", "o", "p", "q", "r", "s", "t", "u", "v", "w", "x", "y", "z">>

UpperChars == <<"A", "B", "C", "D", "E", "F", "G", "H", "I", "J", "K", "L", "M",
                "N", "O", "P", "Q", "R", "S", "T", "U", "V", "W", "X", "Y", "Z">>

\* one character, lower-cased (strptime matches month names ignoring case)
LowerOf(c) ==
    IF \E n \in 1..26 : UpperChars[n] = c
    THEN LowerChars[CHOOSE n \in 1..26 : UpperChars[n] = c]
    ELSE c

LowerText(t) == [k \in 1..Len(t) |-> LowerOf(t[k])]

\* str.replace(old, new) for single characters
Replace(t, old, new) == [k \in 1..Len(t) |-> IF t[k] = old THEN new ELSE t[k]]

\* the decimal value of a text of digits
RECURSIVE DigitsVal(_)
DigitsVal(t) ==
    IF Len(t) = 0 THEN 0
    ELSE 10 * DigitsVal(SubSeq(t, 1, Len(t) - 1)) + DigitVal(t[Len(t)])

\* str(n); ZeroPad gives at least w digits (strftime %d, %m)
RECURSIVE Digits(_)
Digits(n) ==
    IF n < 10 THEN <<DigitChars[n + 1]>>
    ELSE Digits(n \div 10) \o <<DigitChars[(n % 10) + 1]>>

RECURSIVE ZeroPad(_, _)
ZeroPad(t, w) == IF Len(t) >= w THEN t ELSE ZeroPad(<<"0">> \o t, w)

Dash == <<"-">>

(***************************************************************************)
(* Calendar arithmetic of datetime (proleptic Gregorian ordinals)          *)
(***************************************************************************)
MonthNames == << <<"j","a","n">>, <<"f","e","b">>, <<"m","a","r">>, <<"a","p","r">>,
                 <<"m","a","y">>, <<"j","u","n">>, <<"j","u","l">>, <<"a","u","g">>,
                 <<"s","e","p">>, <<"o","c","t">>, <<"n","o","v">>, <<"d","e","c">> >>

IsLeap(y) == (y % 4 = 0) /\ ((y % 100 # 0) \/ (y % 400 = 0))

DaysInMonth(y, m) ==
    IF m = 2 THEN (IF IsLeap(y) THEN 29 ELSE 28)
    ELSE IF m \in {4, 6, 9, 11} THEN 30 ELSE 31

RECURSIVE DaysBeforeMonth(_, _)
DaysBeforeMonth(y, m) ==
    IF m = 1 THEN 0 ELSE DaysBeforeMonth(y, m - 1) + DaysInMonth(y, m - 1)

DaysBeforeYear(y) ==
    (y - 1) * 365 + ((y - 1) \div 4) - ((y - 1) \div 100) + ((y - 1) \div 400)

\* date.toordinal(): 1 for 0001-01-01
ToOrdinal(d) == DaysBeforeYear(d.y) + DaysBeforeMonth(d.y, d.m) + d.d

MinOrdinal == 1
MaxOrdinal == 3652059

DaysIn400Years == 146097
DaysIn100Years == 36524
DaysIn4Years == 1461

\* the month of day-of-year n (0 based) in year y, and the days before it
RECURSIVE MonthOfDay(_, _, _)
MonthOfDay(y, n, m) ==
    IF n < DaysBeforeMonth(y, m) + DaysInMonth(y, m) THEN m
    ELSE MonthOfDay(y, n, m + 1)

\* date.fromordinal()
FromOrdinal(o) ==
    LET n0   == o - 1
        n400 == n0 \div DaysIn400Years
        r400 == n0 % DaysIn400Years
        n100 == r400 \div DaysIn100Years
        r100 == r400 % DaysIn100Years
        n4   == r100 \div DaysIn4Years
        r4   == r100 % DaysIn4Years
        n1   == r4 \div 365
        r1   == r4 % 365
        yy   == n400 * 400 + n100 * 100 + n4 * 4 + n1 + 1
    IN  IF n1 = 4 \/ n100 = 4
        THEN [y |-> yy - 1, m |-> 12, d |-> 31]
        ELSE LET mm == MonthOfDay(yy, r1, 1)
             IN  [y |-> yy, m |-> mm, d |-> r1 - DaysBeforeMonth(yy, mm) + 1]

(***************************************************************************)
(* datetime.strptime(text, "%d-%b-%Y") and strftime("%d-%m-%Y")            *)
(***************************************************************************)
NoDate == [y |-> 0, m |-> 0, d |-> 0]

\* %d : 3[0-1] | [1-2]\d | 0[1-9] | [1-9] | " "[1-9]
DayFieldOk(t) ==
    \/ Len(t) = 1 /\ IsAsciiDigit(t[1]) /\ t[1] # "0"
    \/ /\ Len(t) = 2
       /\ \/ t[1] = "3" /\ t[2] \in {"0", "1"}
          \/ t[1] \in {"1", "2"} /\ IsDigit(t[2])
          \/ t[1] \in {"0", " "} /\ IsAsciiDigit(t[2]) /\ t[2] # "0"

DayFieldVal(t) == IF t[1] = " " THEN DigitVal(t[2]) ELSE DigitsVal(t)

\* %b : one of the twelve abbreviated month names, ignoring case
MonthFieldOk(t) == \E m \in 1..12 : MonthNames[m] = LowerText(t)

MonthFieldVal(t) == CHOOSE m \in 1..12 : MonthNames[m] = LowerText(t)

\* %Y : \d\d\d\d
YearFieldOk(t) == Len(t) = 4 /\ \A k \in 1..4 : IsDigit(t[k])

\* the length of the day field for which the whole text matches, 0 if none
DayFieldLen(t) ==
    LET fits(dl) ==
            /\ Len(t) = dl + 9
            /\ DayFieldOk(SubSeq(t, 1, dl))
            /\ t[dl + 1] = "-"
            /\ MonthFieldOk(SubSeq(t, dl + 2, dl + 4))
            /\ t[dl + 5] = "-"
            /\ YearFieldOk(SubSeq(t, dl + 6, dl + 9))
    IN  IF fits(2) THEN 2 ELSE IF fits(1) THEN 1 ELSE 0

\* strptime: the date, or NoDate where strptime raises ValueError / TypeError
Strptime(text) ==
    IF text = <<"None">> THEN NoDate
    ELSE LET dl == DayFieldLen(text) IN
         IF dl = 0 THEN NoDate
         ELSE LET dd == DayFieldVal(SubSeq(text, 1, dl))
                  mm == MonthFieldVal(SubSeq(text, dl + 2, dl + 4))
                  yy == DigitsVal(SubSeq(text, dl + 6, dl + 9))
              IN  IF yy >= 1 /\ dd <= DaysInMonth(yy, mm)
                  THEN [y |-> yy, m |-> mm, d |-> dd]
                  ELSE NoDate

\* strftime("%d-%m-%Y") with the C library of Linux (glibc): the day and the
\* month have two digits, the year is not padded (999, not 0999)
Strftime(d) ==
    ZeroPad(Digits(d.d), 2) \o Dash \o ZeroPad(Digits(d.m), 2) \o Dash
        \o Digits(d.y)

(***************************************************************************)
(* calculate_date_range                                                    *)
(***************************************************************************)
LookbackDays == 60
LookaheadDays == 1

WindowFailure == [ok |-> FALSE, start |-> <<>>, end |-> <<>>, year |-> 0]

StartOrdinal(expiry) == ToOrdinal(expiry) - LookbackDays

EndOrdinal(expiry) == ToOrdinal(expiry) + LookaheadDays

calculate_date_range(expiry_date_str) ==
    LET expiry_date == Strptime(expiry_date_str) IN
    IF expiry_date = NoDate THEN WindowFailure
    ELSE IF StartOrdinal(expiry_date) < MinOrdinal
            \/ EndOrdinal(expiry_date) > MaxOrdinal
    THEN WindowFailure
    ELSE [ok    |-> TRUE,
          start |-> Strftime(FromOrdinal(StartOrdinal(expiry_date))),
          end   |-> Strftime(FromOrdinal(EndOrdinal(expiry_date))),
          year  |-> expiry_date.y]

(***************************************************************************)
(* JSON values as response.json() yields them.  A dict keeps its keys in   *)
(* order: keys[k] holds vals[k].  A malformed body makes json() raise.     *)
(***************************************************************************)
JMalformed == [t |-> "malformed", keys |-> <<>>, vals |-> <<>>]
JNull == [t |-> "null", keys |-> <<>>, vals |-> <<>>]
JNumber(n) == [t |-> "number", keys |-> <<>>, vals |-> <<n>>]
JBool(b) == [t |-> "bool", keys |-> <<>>, vals |-> <<b>>]
JString(s) == [t |-> "string", keys |-> <<>>, vals |-> <<s>>]
JList(items) == [t |-> "list", keys |-> <<>>, vals |-> items]
JDict(ks, vs) == [t |-> "dict", keys |-> ks, vals |-> vs]

\* `key in data` for a dict
HasKey(data, key) == \E k \in 1..Len(data.keys) : data.keys[k] = key

\* data[key] for a dict that has the key
GetKey(data, key) == data.vals[CHOOSE k \in 1..Len(data.keys) : data.keys[k] = key]

\* response.raise_for_status() raises for 4xx and 5xx
RaisesForStatus(status) == status >= 400 /\ status < 600

\* session.get raised (timeout, connection error) or raise_for_status raised
RequestFails(resp) == resp.net # "ok" \/ RaisesForStatus(resp.status)

\* Ctrl-C while session.get waits: KeyboardInterrupt is no Exception, so
\* `except Exception` lets it through to the caller of process_year
Interrupts(resp) == resp.net = "interrupt"

\* get_expiry_dates left by KeyboardInterrupt: nothing is returned
JInterrupt == [t |-> "interrupt", keys |-> <<>>, vals |-> <<>>]

(***************************************************************************)
(* get_expiry_dates: the value returned for a response of the expiry       *)
(* endpoint.  `'expiryDt' in data` raises TypeError for null, numbers and *)
(* booleans, data['expiryDt'] raises for a string or a list: all caught,   *)
(* all [].                                                                 *)
(***************************************************************************)
FirstExpiryKey(data) ==
    IF HasKey(data, "expiryDt") THEN "expiryDt"
    ELSE IF HasKey(data, "expiresDts") THEN "expiresDts"
    ELSE IF HasKey(data, "expiryDates") THEN "expiryDates"
    ELSE "none"

\* Python truth value of a JSON value
Truthy(v) ==
    CASE v.t = "list" -> Len(v.vals) > 0
      [] v.t = "dict" -> Len(v.keys) > 0
      [] v.t = "string" -> v.vals # <<"">>
      [] v.t = "number" -> v.vals # <<0>>
      [] v.t = "bool" -> v.vals = <<TRUE>>
      [] OTHER -> FALSE

\* len(v) is defined; for a number or a boolean it raises TypeError
HasLen(v) == v.t \in {"list", "dict", "string"}

\* line 194 takes len(expiry_dates) for the log line before the value is
\* returned: its TypeError is caught at line 200
get_expiry_dates(resp) ==
    IF Interrupts(resp) THEN JInterrupt
    ELSE IF RequestFails(resp) THEN JList(<<>>)
    ELSE IF resp.json.t # "dict" THEN JList(<<>>)
    ELSE LET key == FirstExpiryKey(resp.json) IN
         IF key = "none" THEN JList(<<>>)
         ELSE IF ~Truthy(GetKey(resp.json, key)) THEN JList(<<>>)
         ELSE IF ~HasLen(GetKey(resp.json, key)) THEN JList(<<>>)
         ELSE GetKey(resp.json, key)

\* the query of the expiry endpoint
ExpiryRequest(yr, instrument, sym, jar, hdrs) ==
    [endpoint |-> "expireDts", year |-> yr, instrument |-> instrument,
     symbol |-> sym, expiryDate |-> <<>>, from |-> <<>>, to |-> <<>>,
     cookies |-> jar, headers |-> hdrs]

(***************************************************************************)
(* The disk: directories are sequences of path components, a file is a     *)
(* [path, content] record, a path is [dir, name].                          *)
(***************************************************************************)
Underscore == <<"_">>

\* base_dir="nse_data" (create_folder_structure, download_csv_data)
BaseDir == <<"n", "s", "e", "_", "d", "a", "t", "a">>

\* symbol="NIFTY", instrument="FUTIDX": the defaults main() runs with
NIFTY == <<"N", "I", "F", "T", "Y">>
BANKNIFTY == <<"B", "A", "N", "K", "N", "I", "F", "T", "Y">>

\* the symbols the callers pass to process_year
Symbols == {NIFTY, BANKNIFTY}

FUTIDX == <<"F", "U", "T", "I", "D", "X">>

NoPath == [dir |-> <<>>, name |-> <<>>]

\* str.startswith
StartsWith(t, prefix) ==
    Len(t) >= Len(prefix) /\ SubSeq(t, 1, Len(prefix)) = prefix

\* os.path.join(base_dir, str(year), symbol, instrument)
FolderPath(base_dir, yr, sym, instrument) ==
    <<base_dir, Digits(yr), sym, instrument>>

\* os.makedirs(path, exist_ok=True): the directory and all its parents
MakeDirs(disk_dirs, folder) ==
    disk_dirs \cup {SubSeq(folder, 1, k) : k \in 1..Len(folder)}

\* how many of the folder's directories, outermost first, are on the disk
ExistingLevels(disk_dirs, folder) ==
    Cardinality({k \in 1..Len(folder) : SubSeq(folder, 1, k) \in disk_dirs})

\* os.makedirs raising OSError: it creates the missing directories from the
\* outermost on, `made` of them, and fails at the next one
MakeDirsFails(disk_dirs, folder, made) ==
    ExistingLevels(disk_dirs, folder) + made < Len(folder)

MakeDirsPartly(disk_dirs, folder, made) ==
    disk_dirs \cup {SubSeq(folder, 1, k) :
                      k \in 1..(ExistingLevels(disk_dirs, folder) + made)}

\* f"{symbol}_{instrument}_{clean_expiry}_{start}_to_{end}.csv"
FileName(sym, instrument, expiry_date, start_date, end_date) ==
    sym \o Underscore \o instrument \o Underscore
        \o Replace(expiry_date, "-", "_") \o Underscore
        \o Replace(start_date, "-", "_") \o <<"_", "t", "o", "_">>
        \o Replace(end_date, "-", "_") \o <<".", "c", "s", "v">>

FilePath(folder, name) == [dir |-> folder, name |-> name]

\* the content of a file written by f.write(response.text)
TextContent(text) == [kind |-> "text", text |-> text, columns |-> <<>>, rows |-> <<>>]

\* the content of a file written by df.to_csv(filepath, index=False)
TableContent(df) ==
    [kind |-> "table", text |-> "", columns |-> df.columns, rows |-> df.rows]

\* a faulty variant of WriteFile: what the path held before is kept beside
\* what is written
WriteFileKeepingOld(disk_files, path, content) ==
    disk_files \cup {[path |-> path, content |-> content]}

\* the file at the path holds the content, whatever it held before
WriteFile(disk_files, path, content) ==
    {f \in disk_files : f.path # path} \cup {[path |-> path, content |-> content]}

\* open(filepath, 'w') at line 269, and the open inside to_csv at line 293:
\* the file is created, or emptied
OpenForWriting(disk_files, path) == WriteFile(disk_files, path, TextContent(""))

\* one line of the file to_csv(index=False) writes: the fields (one at
\* least) with "," between them and a line end
RECURSIVE CsvLine(_)
CsvLine(fields) ==
    IF Len(fields) = 1 THEN fields[1] \o "\n"
    ELSE fields[1] \o "," \o CsvLine(Tail(fields))

RECURSIVE CsvLines(_)
CsvLines(rows) ==
    IF Len(rows) = 0 THEN "" ELSE CsvLine(rows[1]) \o CsvLines(Tail(rows))

\* the bytes written for the content: the text as it is (f.write, line 270),
\* or the header line of the columns and one line per row (to_csv, line 293)
BytesOf(content) ==
    IF content.kind = "table"
    THEN CsvLine(content.columns) \o CsvLines(content.rows)
    ELSE content.text

\* what is in the file when the write fails after `kept` bytes of the
\* content were flushed: the first `kept` bytes, wherever that cuts
Partly(content, kept) == TextContent(SubSeq(BytesOf(content), 1, kept))

\* a write can fail only before its last byte is flushed
WriteFails(content, kept) == kept < Len(BytesOf(content))

\* lines 269-270, or to_csv at line 293: [ok, files].  The open may fail
\* (the disk is as it was); after the open the file is empty, and the write
\* may fail with the bytes flushed until then in the file
Store(disk_files, path, content, fault, kept) ==
    IF fault = "open" THEN [ok |-> FALSE, files |-> disk_files]
    ELSE IF fault = "write" /\ WriteFails(content, kept)
    THEN [ok |-> FALSE,
          files |-> WriteFile(OpenForWriting(disk_files, path), path,
                              Partly(content, kept))]
    ELSE [ok |-> TRUE, files |-> WriteFile(OpenForWriting(disk_files, path), path, content)]

FileAt(disk_files, path) == {f \in disk_files : f.path = path}

(***************************************************************************)
(* pd.DataFrame(list of dicts): columns are the keys in the order they     *)
(* are first met, one row per record, a missing key is NaN, which to_csv   *)
(* writes as an empty field.                                               *)
(***************************************************************************)
RECURSIVE AppendNew(_, _)
AppendNew(cols, ks) ==
    IF Len(ks) = 0 THEN cols
    ELSE AppendNew(IF \E k \in 1..Len(cols) : cols[k] = Head(ks)
                   THEN cols ELSE Append(cols, Head(ks)),
                   Tail(ks))

RECURSIVE ColumnsOf(_, _)
ColumnsOf(records, cols) ==
    IF Len(records) = 0 THEN cols
    ELSE ColumnsOf(Tail(records), AppendNew(cols, Head(records).keys))

DataFrame(records) ==
    LET cols == ColumnsOf(records, <<>>) IN
    [columns |-> cols,
     rows |-> [r \in 1..Len(records) |->
                 [c \in 1..Len(cols) |->
                    IF HasKey(records[r], cols[c])
                    THEN GetKey(records[r], cols[c]) ELSE ""]]]

\* df['FH_TIMESTAMP'] raises KeyError when there is no such column
HasColumn(df, name) == \E c \in 1..Len(df.columns) : df.columns[c] = name

(***************************************************************************)
(* download_csv_data                                                       *)
(***************************************************************************)
TextCsv == <<"t", "e", "x", "t", "/", "c", "s", "v">>
Attachment == <<"a", "t", "t", "a", "c", "h", "m", "e", "n", "t">>

\* the query of the historical-data endpoint
DataRequest(expiry_date, start_date, end_date, yr, instrument, sym, jar, hdrs) ==
    [endpoint |-> "foCPV", year |-> yr, instrument |-> instrument,
     symbol |-> sym, expiryDate |-> expiry_date, from |-> start_date,
     to |-> end_date, cookies |-> jar, headers |-> hdrs]

IsCsvResponse(resp) ==
    StartsWith(resp.ctype, TextCsv) \/ StartsWith(resp.cdisp, Attachment)

\* 'data' in data and isinstance(data['data'], list) and len(data['data']) > 0
HasRecords(data) ==
    /\ data.t = "dict"
    /\ HasKey(data, "data")
    /\ GetKey(data, "data").t = "list"
    /\ Len(GetKey(data, "data").vals) > 0

\* line 297 reads df['FH_TIMESTAMP'] after the file is written
TimestampLogged(df) == HasColumn(df, "FH_TIMESTAMP")

\* session.get returned and raise_for_status did not raise
ResponseUsable(resp) == ~RequestFails(resp)

\* the part of download_csv_data inside try, after the request was made:
\* [result, files, wrote]; wrote: the store was completed.  An exception of
\* the store is caught at line 308 (CSV branch) or 303 (JSON branch)
HandleResponse(resp, fault, kept, filepath, disk_files) ==
    LET failed == [result |-> "None", files |-> disk_files, wrote |-> FALSE] IN
    IF Interrupts(resp)
    THEN [result |-> "interrupt", files |-> disk_files, wrote |-> FALSE]
    ELSE IF ~ResponseUsable(resp) THEN failed
    ELSE IF IsCsvResponse(resp)
    THEN LET st == Store(disk_files, filepath, TextContent(resp.text), fault, kept) IN
         [result |-> IF st.ok THEN "path" ELSE "None",
          files |-> st.files,
          wrote |-> st.ok]
    ELSE IF resp.json.t = "malformed" THEN failed
    ELSE IF ~HasRecords(resp.json) THEN failed
    ELSE LET df == DataFrame(GetKey(resp.json, "data").vals)
             st == Store(disk_files, filepath, TableContent(df), fault, kept)
         IN  [result |-> IF st.ok /\ TimestampLogged(df) THEN "path" ELSE "None",
              files |-> st.files,
              wrote |-> st.ok]

\* download_csv_data: [result, path, dirs, files, requests, wrote]; result is
\* "path" (the file path is returned), "None", "raise" (an OSError leaves the
\* function) or "interrupt" (KeyboardInterrupt leaves it).  os.makedirs
\* (line 240) is called before the try block: its OSError leaves the
\* function, with the directories made until then left on the disk
download_csv_data(expiry_date, start_date, end_date, yr, instrument, sym, base_dir, env, disk_dirs, disk_files, jar, hdrs) ==
    LET folder_path == FolderPath(base_dir, yr, sym, instrument)
        filepath == FilePath(folder_path,
                             FileName(sym, instrument, expiry_date,
                                      start_date, end_date))
    IN  IF env.fault = "mkdir" /\ MakeDirsFails(disk_dirs, folder_path, env.made)
        THEN [result |-> "raise", path |-> filepath,
              dirs |-> MakeDirsPartly(disk_dirs, folder_path, env.made),
              files |-> disk_files, requests |-> <<>>, wrote |-> FALSE]
        ELSE LET h == HandleResponse(env.resp, env.fault, env.kept, filepath, disk_files) IN
             [result |-> h.result, path |-> filepath,
              dirs |-> MakeDirs(disk_dirs, folder_path), files |-> h.files,
              requests |-> <<DataRequest(expiry_date, start_date, end_date, yr,
                                         instrument, sym, jar, hdrs)>>,
              wrote |-> h.wrote]

(***************************************************************************)
(* initialize_session: what the browser does decides the outcome.          *)
(*   nav   : "ok", "error" when driver.get raises, "interrupt" when Ctrl-C *)
(*           arrives while driver.get, time.sleep or the wait blocks       *)
(*   ready : FALSE when WebDriverWait(...).until raises TimeoutException   *)
(*   jar   : driver.get_cookies(), a sequence of <<name, value>>           *)
(***************************************************************************)
\* session.cookies.set(name, value): a cookie of that name is replaced
SetCookie(store, cookie) ==
    {c \in store : c[1] # cookie[1]} \cup {cookie}

RECURSIVE CopyCookies(_, _)
CopyCookies(store, jar) ==
    IF Len(jar) = 0 THEN store
    ELSE CopyCookies(SetCookie(store, Head(jar)), Tail(jar))

\* an exception inside the try block of initialize_session
SessionFailed(browser) == browser.nav # "ok" \/ ~browser.ready

\* [ok, raised, cookies, headers]: raised when KeyboardInterrupt leaves the
\* function (lines 126-137 block before any cookie is copied); a failure
\* leaves the cookies and the headers of the session as they were
initialize_session(browser, store, hdrs) ==
    IF browser.nav = "interrupt"
    THEN [ok |-> FALSE, raised |-> TRUE, cookies |-> store, headers |-> hdrs]
    ELSE IF SessionFailed(browser)
    THEN [ok |-> FALSE, raised |-> FALSE, cookies |-> store, headers |-> hdrs]
    ELSE [ok |-> TRUE, raised |-> FALSE, cookies |-> CopyCookies(store, browser.jar),
          headers |-> TRUE]

(***************************************************************************)
(* process_year and main: control flow                                     *)
(***************************************************************************)
\* a faulty variant of AfterSession: the result of initialize_session is ignored
AfterSessionIgnored(ok) == "mkbase"

\* lines 317-319: a failed session build returns False at once
AfterSession(ok) == IF ok THEN "mkbase" ELSE "finally"

\* a faulty variant of AfterProcessYear: close() only runs when process_year returns
AfterProcessYearNoFinally(outcome) == IF outcome = "raise" THEN "exited" ELSE "finally"

\* main, lines 394-411: try / except KeyboardInterrupt / except Exception /
\* finally: every outcome reaches close()
AfterProcessYear(outcome) == "finally"

\* line 363: return success_count > 0
ReturnValue(count) == IF count > 0 THEN "True" ELSE "False"

\* lines 331-332: expiry_dates[:1] in testing mode
Truncate(dates, single) == IF single THEN SubSeq(dates, 1, 1) ELSE dates

(***************************************************************************)
(* Inputs of the run                                                       *)
(***************************************************************************)
MaxExpiries == 2

\* example_3_multiple_years: years = [2022, 2023, 2024], one process_year
\* call each on one scraper before close()
MaxCalls == 3

Years == {2024, 2025}

\* "25-JAN-2024", "30-Jan-2025" (its window starts in 2024), "31-FEB-2024"
Expiry1 == <<"2", "5", "-", "J", "A", "N", "-", "2", "0", "2", "4">>
Expiry2 == <<"3", "0", "-", "J", "a", "n", "-", "2", "0", "2", "5">>
ExpiryBad == <<"3", "1", "-", "F", "E", "B", "-", "2", "0", "2", "4">>

ExpiryTexts == {Expiry1, Expiry2, ExpiryBad}

ExpiryLists == UNION {[1..n -> ExpiryTexts] : n \in 0..MaxExpiries}

Response(net, status, ctype, cdisp, text, json) ==
    [net |-> net, status |-> status, ctype |-> ctype, cdisp |-> cdisp,
     text |-> text, json |-> json]

AppJson == <<"a", "p", "p", "l", "i", "c", "a", "t", "i", "o", "n", "/",
             "j", "s", "o", "n">>

NoResponse == Response("none", 0, <<>>, <<>>, "", JMalformed)
TransportError == Response("error", 0, <<>>, <<>>, "", JMalformed)
Interrupted == Response("interrupt", 0, <<>>, <<>>, "", JMalformed)

Browsers ==
    {[nav |-> "interrupt", ready |-> FALSE, jar |-> <<>>],
     [nav |-> "error", ready |-> FALSE, jar |-> <<>>],
     [nav |-> "ok", ready |-> FALSE, jar |-> <<>>],
     [nav |-> "ok", ready |-> TRUE, jar |-> <<>>],
     [nav |-> "ok", ready |-> TRUE, jar |-> << <<"nsit", "a">>, <<"nseappid", "b">> >>]}

\* answers of the expiry endpoint during a run
RunExpiryResponses ==
    {TransportError, Interrupted,
     Response("ok", 200, AppJson, <<>>, "", JDict(<<"message">>, <<JString("x")>>))}
    \cup {Response("ok", 200, AppJson, <<>>, "", JDict(<<k>>, <<JList(l)>>)) :
            k \in {"expiryDt", "expiresDts"}, l \in ExpiryLists}

\* records of the historical-data endpoint
RecordA == JDict(<<"FH_TIMESTAMP", "FH_CLOSING_PRICE">>, <<"01-Jan-2024", "1">>)
RecordB == JDict(<<"FH_TIMESTAMP", "FH_CLOSING_PRICE">>, <<"02-Jan-2024", "2">>)
RecordC == JDict(<<"x", "y">>, <<"1", "2">>)
RecordD == JDict(<<"z", "x">>, <<"3", "4">>)

JsonResponse(json) == Response("ok", 200, AppJson, <<>>, "{...}", json)

CsvBody == "FH_TIMESTAMP,FH_CLOSING_PRICE\n01-Jan-2024,1\n"

CsvOk == Response("ok", 200, TextCsv \o <<";">>, <<>>, CsvBody, JMalformed)
CsvOtherFields == Response("ok", 200, TextCsv, <<>>, "a,b\n1,2\n", JMalformed)
JsonOk == JsonResponse(JDict(<<"data">>, <<JList(<<RecordA, RecordB>>)>>))
JsonOtherFields == JsonResponse(JDict(<<"data">>, <<JList(<<RecordC, RecordD>>)>>))

\* answers of the historical-data endpoint, with statuses on both sides of
\* the ones raise_for_status raises for (400..599)
FetchResponses ==
    {TransportError,
     Response("ok", 500, TextCsv, <<>>, CsvBody, JMalformed),
     Response("ok", 404, AppJson, <<>>, "{...}",
              JDict(<<"data">>, <<JList(<<RecordA, RecordB>>)>>)),
     Response("ok", 100, TextCsv, <<>>, CsvBody, JMalformed),
     Response("ok", 304, TextCsv, <<>>, CsvBody, JMalformed),
     Response("ok", 301, AppJson, <<>>, "{...}",
              JDict(<<"data">>, <<JList(<<RecordA, RecordB>>)>>)),
     Response("ok", 600, <<>>, Attachment, CsvBody, JMalformed),
     CsvOk,
     CsvOtherFields,
     Response("ok", 200, TextCsv, <<>>, "", JMalformed),
     Response("ok", 200, <<>>, Attachment \o <<";">>, CsvBody, JMalformed),
     JsonResponse(JMalformed),
     JsonResponse(JNull),
     JsonResponse(JList(<<JString("data")>>)),
     JsonResponse(JDict(<<"message">>, <<JString("x")>>)),
     JsonResponse(JDict(<<"data">>, <<JList(<<>>)>>)),
     JsonResponse(JDict(<<"data">>, <<JString("x")>>)),
     JsonOk,
     JsonOtherFields}

\* the bytes download_csv_data writes for a usable answer
PayloadOf(resp) ==
    IF IsCsvResponse(resp) THEN TextContent(resp.text)
    ELSE TableContent(DataFrame(GetKey(resp.json, "data").vals))

\* what happens around one download_csv_data call: a disk fault (of
\* os.makedirs, with the levels made before it; of the open; of the write,
\* with the number of bytes flushed before it, every cut of the payload) or
\* an answer
FetchEnvs ==
    {[fault |-> "mkdir", made |-> n, kept |-> 0, resp |-> NoResponse] : n \in 0..3}
    \cup {[fault |-> "none", made |-> 0, kept |-> 0, resp |-> r] : r \in FetchResponses}
    \cup {[fault |-> "open", made |-> 0, kept |-> 0, resp |-> r] : r \in {CsvOk, JsonOk}}
    \cup UNION {{[fault |-> "write", made |-> 0, kept |-> k, resp |-> r] :
                    k \in 0..(Len(BytesOf(PayloadOf(r))) - 1)} :
                 r \in {CsvOk, CsvOtherFields, JsonOk}}

\* the ones a run meets (the others are met by download_csv_data on its own)
RunFetchEnvs ==
    {[fault |-> "mkdir", made |-> n, kept |-> 0, resp |-> NoResponse] : n \in 0..3}
    \cup {[fault |-> "open", made |-> 0, kept |-> 0, resp |-> CsvOk],
          [fault |-> "write", made |-> 0, kept |-> 0, resp |-> CsvOk]}
    \cup {[fault |-> "none", made |-> 0, kept |-> 0, resp |-> r] :
            r \in {TransportError, Interrupted, CsvOk, JsonOk, JsonOtherFields}}

NoEnv == [fault |-> "none", made |-> 0, kept |-> 0, resp |-> NoResponse]

\* the fault of the environment can strike the call: a directory creation
\* can fail only where a directory is still to be created
Realisable(env, disk_dirs, folder) ==
    env.fault = "mkdir" => MakeDirsFails(disk_dirs, folder, env.made)

\* the disk before the run: nothing, or only the base directory
InitialDisks ==
    {[dirs |-> {}, files |-> {}],
     [dirs |-> {<<BaseDir>>}, files |-> {}]}

IdleProbe == [fn |-> "none", done |-> FALSE]

(***************************************************************************)
(* The run: a caller (main, or an example of example_usage.py) after the   *)
(* scraper was constructed: process_year, once or several times with the   *)
(* same symbol and mode, then close().                                     *)
(***************************************************************************)
Init ==
    /\ pc = "start"
    /\ calls = 1
    /\ year \in Years
    /\ symbol \in Symbols
    /\ test_single \in BOOLEAN
    /\ init_ok = "none"
    /\ cookies = {}
    /\ headers_set = FALSE
    /\ builds = 0
    /\ requests = <<>>
    /\ resolved = <<>>
    /\ expiry_dates = <<>>
    /\ idx = 0
    /\ success_count = 0
    /\ \E disk \in InitialDisks : dirs = disk.dirs /\ files = disk.files
    /\ ret = "none"
    /\ driver = "running"
    /\ session = "open"
    /\ log = <<>>
    /\ probe = IdleProbe

\* process_year, lines 316-319
InitializeSession ==
    /\ pc = "start"
    /\ \E browser \in Browsers :
       \E r \in {initialize_session(browser, cookies, headers_set)} :
         /\ builds' = builds + 1
         /\ cookies' = r.cookies
         /\ headers_set' = r.headers
         /\ IF r.raised
            THEN /\ init_ok' = init_ok
                 /\ pc' = AfterProcessYear("interrupt")
                 /\ ret' = "interrupt"
            ELSE /\ init_ok' = IF r.ok THEN "True" ELSE "False"
                 /\ pc' = AfterSession(r.ok)
                 /\ ret' = IF AfterSession(r.ok) = "finally" THEN "False" ELSE "none"
    /\ UNCHANGED <<calls, year, symbol, test_single, requests, resolved, expiry_dates, idx, success_count,
                   dirs, files, driver, session, log, probe>>

\* process_year, line 322: create_folder_structure; os.makedirs may raise
CreateFolderStructure ==
    /\ pc = "mkbase"
    /\ \E fault \in {"none", "mkdir"} :
         IF <<BaseDir>> \in dirs \/ fault = "none"
         THEN /\ dirs' = dirs \cup {<<BaseDir>>}
              /\ pc' = "resolve"
              /\ ret' = ret
         ELSE /\ dirs' = dirs
              /\ pc' = AfterProcessYear("raise")
              /\ ret' = "raise"
    /\ UNCHANGED <<calls, year, symbol, test_single, init_ok, cookies, headers_set, builds,
                   requests, resolved, expiry_dates, idx, success_count, files, driver,
                   session, log, probe>>

\* process_year, lines 325-333
GetExpiryDates ==
    /\ pc = "resolve"
    /\ \E resp \in RunExpiryResponses :
       \E found \in {get_expiry_dates(resp)} :
         /\ requests' = Append(requests,
                               ExpiryRequest(year, FUTIDX, symbol, cookies, headers_set))
         /\ IF found.t = "interrupt"
            THEN /\ resolved' = <<>>
                 /\ expiry_dates' = <<>>
                 /\ pc' = AfterProcessYear("interrupt")
                 /\ ret' = "interrupt"
            ELSE IF Truthy(found)
            THEN /\ resolved' = found.vals
                 /\ expiry_dates' = Truncate(found.vals, test_single)
                 /\ pc' = "loop"
                 /\ ret' = ret
            ELSE /\ resolved' = <<>>
                 /\ expiry_dates' = <<>>
                 /\ pc' = AfterProcessYear("False")
                 /\ ret' = "False"
    /\ UNCHANGED <<calls, year, symbol, test_single, init_ok, cookies, headers_set, builds, idx,
                   success_count, dirs, files, driver, session, log, probe>>

LogEntry(expiry, window, env, d) ==
    [expiry |-> expiry, window |-> window, env |-> env, result |-> d.result,
     path |-> d.path, wrote |-> d.wrote]

Skipped == [result |-> "skip", path |-> NoPath, wrote |-> FALSE]

\* process_year, lines 338-360: one iteration of the loop
ProcessExpiry ==
    /\ pc = "loop"
    /\ idx < Len(expiry_dates)
    /\ \E expiry_date \in {expiry_dates[idx + 1]} :
       \E window \in {calculate_date_range(expiry_date)} :
         IF ~window.ok
         THEN /\ log' = Append(log, LogEntry(expiry_date, window, NoEnv, Skipped))
              /\ idx' = idx + 1
              /\ UNCHANGED <<pc, ret, success_count, dirs, files, requests>>
         ELSE \E env \in {e \in RunFetchEnvs :
                            Realisable(e, dirs, FolderPath(BaseDir, window.year,
                                                           symbol, FUTIDX))} :
              \E d \in {download_csv_data(expiry_date, window.start, window.end,
                                          window.year, FUTIDX, symbol, BaseDir, env,
                                          dirs, files, cookies, headers_set)} :
                /\ log' = Append(log, LogEntry(expiry_date, window, env, d))
                /\ dirs' = d.dirs
                /\ files' = d.files
                /\ requests' = requests \o d.requests
                /\ IF d.result \in {"raise", "interrupt"}
                   THEN /\ pc' = AfterProcessYear(d.result)
                        /\ ret' = d.result
                        /\ UNCHANGED <<idx, success_count>>
                   ELSE /\ idx' = idx + 1
                        /\ success_count' =
                             IF d.result = "path" THEN success_count + 1
                             ELSE success_count
                        /\ UNCHANGED <<pc, ret>>
    /\ UNCHANGED <<calls, year, symbol, test_single, init_ok, cookies, headers_set, builds,
                   resolved, expiry_dates, driver, session, probe>>

\* process_year, line 360: Ctrl-C during the pause that ends an iteration
\* in which download_csv_data was called
InterruptSleep ==
    /\ pc = "loop"
    /\ idx >= 1
    /\ log[idx].result # "skip"
    /\ ret' = "interrupt"
    /\ pc' = AfterProcessYear("interrupt")
    /\ UNCHANGED <<calls, year, symbol, test_single, init_ok, cookies, headers_set, builds,
                   requests, resolved, expiry_dates, idx, success_count, dirs, files, driver,
                   session, log, probe>>

\* process_year, lines 362-363
ReturnResult ==
    /\ pc = "loop"
    /\ idx = Len(expiry_dates)
    /\ ret' = ReturnValue(success_count)
    /\ pc' = AfterProcessYear(ret')
    /\ UNCHANGED <<calls, year, symbol, test_single, init_ok, cookies, headers_set, builds,
                   requests, resolved, expiry_dates, idx, success_count, dirs, files, driver,
                   session, log, probe>>

\* main, lines 409-411: scraper.close()
Close ==
    /\ pc = "finally"
    /\ driver' = "quit"
    /\ session' = "closed"
    /\ pc' = "exited"
    /\ UNCHANGED <<calls, year, symbol, test_single, init_ok, cookies, headers_set, builds,
                   requests, resolved, expiry_dates, idx, success_count, dirs, files, ret,
                   log, probe>>

\* example_usage.py, lines 51-53: process_year returned and the caller's
\* loop calls it again on the same scraper: the session, its cookies and
\* headers and the disk are as the earlier call left them
ProcessYearAgain ==
    /\ pc = "finally"
    /\ ret \in {"True", "False"}
    /\ calls < MaxCalls
    /\ calls' = calls + 1
    /\ year' \in Years
    /\ pc' = "start"
    /\ init_ok' = "none"
    /\ requests' = <<>>
    /\ resolved' = <<>>
    /\ expiry_dates' = <<>>
    /\ idx' = 0
    /\ success_count' = 0
    /\ ret' = "none"
    /\ log' = <<>>
    /\ UNCHANGED <<symbol, test_single, cookies, headers_set, builds, dirs, files, driver,
                   session, probe>>

Next ==
    \/ InitializeSession
    \/ CreateFolderStructure
    \/ GetExpiryDates
    \/ ProcessExpiry
    \/ InterruptSleep
    \/ ReturnResult
    \/ ProcessYearAgain
    \/ Close

Spec == Init /\ [][Next]_vars

(***************************************************************************)
(* calculate_date_range applied on its own to texts built from a day       *)
(* field, a month field and a year field.  Each field carries the value    *)
(* it is meant to denote (0: none), which the parser never reads.          *)
(***************************************************************************)
Field(text, val) == [text |-> text, val |-> val]

\* strptime's %d also takes a day without padding or padded with a space,
\* and \d takes the decimal digits of every script
DayFields ==
    {Field(<<"1">>, 1), Field(<<"0", "1">>, 1), Field(<<" ", "7">>, 7),
     Field(<<"2", "5">>, 25), Field(<<"2", "8">>, 28), Field(<<"2", "9">>, 29),
     Field(<<"3", "0">>, 30), Field(<<"3", "1">>, 31), Field(<<"3", "2">>, 0),
     Field(<<"0">>, 0), Field(<<"0", "0">>, 0), Field(<<"x", "1">>, 0),
     Field(<<"1", "2", "3">>, 0), Field(<<>>, 0),
     Field(<<"2", "U+0665">>, 25), Field(<<"U+0662", "5">>, 0),
     Field(<<"U+0667">>, 0), Field(<<"0", "U+FF17">>, 0)}

MonthFields ==
    {Field(<<"J", "A", "N">>, 1), Field(<<"J", "a", "n">>, 1), Field(<<"j", "a", "n">>, 1),
     Field(<<"F", "E", "B">>, 2), Field(<<"F", "e", "b">>, 2), Field(<<"M", "a", "r">>, 3),
     Field(<<"A", "P", "R">>, 4), Field(<<"D", "e", "c">>, 12), Field(<<"D", "E", "C">>, 12),
     Field(<<"0", "1">>, 0), Field(<<"F", "o", "o">>, 0), Field(<<"J", "u", "n", "e">>, 0),
     Field(<<>>, 0)}

YearFields ==
    {Field(<<"2", "0", "2", "3">>, 2023), Field(<<"2", "0", "2", "4">>, 2024),
     Field(<<"2", "0", "2", "5">>, 2025), Field(<<"2", "1", "0", "0">>, 2100),
     Field(<<"2", "0", "0", "0">>, 2000), Field(<<"2", "4">>, 0),
     Field(<<"2", "0", "2", "4", "0">>, 0), Field(<<"2", "0", "a", "4">>, 0),
     Field(<<"1", "0", "0", "0">>, 1000), Field(<<"0", "9", "9", "9">>, 999),
     Field(<<"0", "0", "0", "1">>, 1), Field(<<"0", "0", "0", "0">>, 0),
     Field(<<"9", "9", "9", "9">>, 9999),
     Field(<<"U+0662", "U+0660", "U+0662", "U+0664">>, 2024),
     Field(<<"2", "0", "2", "U+0664">>, 2024),
     Field(<<"U+FF12", "U+FF10", "U+FF12", "U+FF14">>, 2024)}

Separators == {"-", "/", "_"}

WindowInput(day, sep, month, yr) ==
    [text |-> day.text \o <<sep>> \o month.text \o <<sep>> \o yr.text,
     sep |-> sep, d |-> day.val, m |-> month.val, y |-> yr.val]

\* expiry_date_str=None and an empty text as well
WindowInputs ==
    {WindowInput(day, sep, month, yr) :
        day \in DayFields, sep \in Separators, month \in MonthFields, yr \in YearFields}
    \cup {[text |-> <<"None">>, sep |-> "-", d |-> 0, m |-> 0, y |-> 0],
          [text |-> <<>>, sep |-> "-", d |-> 0, m |-> 0, y |-> 0]}

InitWindow ==
    /\ pc = "probe"
    /\ calls = 0
    /\ year = 0
    /\ symbol = NIFTY
    /\ test_single = FALSE
    /\ init_ok = "none"
    /\ cookies = {}
    /\ headers_set = FALSE
    /\ builds = 0
    /\ requests = <<>>
    /\ resolved = <<>>
    /\ expiry_dates = <<>>
    /\ idx = 0
    /\ success_count = 0
    /\ dirs = {}
    /\ files = {}
    /\ ret = "none"
    /\ driver = "running"
    /\ session = "open"
    /\ log = <<>>
    /\ \E input \in WindowInputs :
         probe = [fn |-> "calculate_date_range", done |-> FALSE, in |-> input,
                  out |-> WindowFailure]

ApplyWindow ==
    /\ probe.fn = "calculate_date_range"
    /\ ~probe.done
    /\ probe' = [probe EXCEPT !.done = TRUE, !.out = calculate_date_range(probe.in.text)]
    /\ UNCHANGED runVars

SpecWindow == InitWindow /\ [][ApplyWindow]_vars

(***************************************************************************)
(* get_expiry_dates applied on its own to answers of the expiry endpoint   *)
(***************************************************************************)
\* the lists a key may hold; different under each key, so that the key
\* the result came from can be told
KeyValues(key) ==
    CASE key = "expiryDt" -> {JList(<<>>), JList(<<Expiry1>>), JList(<<Expiry1, Expiry2>>)}
      [] key = "expiresDts" -> {JList(<<>>), JList(<<Expiry2>>), JList(<<Expiry2, Expiry1>>)}
      [] key = "expiryDates" -> {JList(<<>>), JList(<<ExpiryBad>>), JList(<<ExpiryBad, Expiry1>>)}
      [] OTHER -> {JString("x")}

ExpiryKeys == <<"expiryDt", "expiresDts", "expiryDates">>

\* every dict whose keys are a subsequence of ks
RECURSIVE DictsOver(_)
DictsOver(ks) ==
    IF Len(ks) = 0 THEN {JDict(<<>>, <<>>)}
    ELSE LET rest == DictsOver(Tail(ks)) IN
         rest \cup {JDict(<<Head(ks)>> \o r.keys, <<v>> \o r.vals) :
                      r \in rest, v \in KeyValues(Head(ks))}

\* the same dict with its keys in the reverse order
Reversed(data) ==
    JDict([k \in 1..Len(data.keys) |-> data.keys[Len(data.keys) + 1 - k]],
          [k \in 1..Len(data.vals) |-> data.vals[Len(data.vals) + 1 - k]])

\* what a key holds when it holds no list
OtherValues ==
    {JNull, JNumber(0), JNumber(5), JBool(TRUE), JBool(FALSE), JString(""),
     JString("x"), JDict(<<>>, <<>>), JDict(<<"a">>, <<JNumber(1)>>)}

ExpiryBodies ==
    LET dicts == DictsOver(<<"message">> \o ExpiryKeys) IN
    dicts \cup {Reversed(d) : d \in dicts}
        \cup {JMalformed, JNull, JNumber(0), JNumber(5), JBool(TRUE),
              JString("expiryDt"), JList(<<JString("expiryDt")>>)}
        \cup {JDict(<<"expiryDt", "expiresDts">>, <<v, JList(<<Expiry2>>)>>) :
                v \in OtherValues}

\* raise_for_status raises for 400..599 only
ExpiryStatuses == {100, 200, 301, 304, 404, 500, 600}

ExpiryResponses ==
    {TransportError}
    \cup {Response("ok", status, AppJson, <<>>, "", body) :
            status \in ExpiryStatuses, body \in ExpiryBodies}

InitResolve ==
    /\ pc = "probe"
    /\ calls = 0
    /\ year = 0
    /\ symbol = NIFTY
    /\ test_single = FALSE
    /\ init_ok = "none"
    /\ cookies = {}
    /\ headers_set = FALSE
    /\ builds = 0
    /\ requests = <<>>
    /\ resolved = <<>>
    /\ expiry_dates = <<>>
    /\ idx = 0
    /\ success_count = 0
    /\ dirs = {}
    /\ files = {}
    /\ ret = "none"
    /\ driver = "running"
    /\ session = "open"
    /\ log = <<>>
    /\ \E resp \in ExpiryResponses :
         probe = [fn |-> "get_expiry_dates", done |-> FALSE, in |-> resp,
                  out |-> JList(<<>>)]

ApplyResolve ==
    /\ probe.fn = "get_expiry_dates"
    /\ ~probe.done
    /\ probe' = [probe EXCEPT !.done = TRUE, !.out = get_expiry_dates(probe.in)]
    /\ UNCHANGED runVars

SpecResolve == InitResolve /\ [][ApplyResolve]_vars

(***************************************************************************)
(* download_csv_data applied on its own: every answer, on a disk that is   *)
(* empty, holds a file at the target path (an older one, or the one an     *)
(* earlier call stored for CsvOk or JsonOk), or holds another file         *)
(***************************************************************************)
FetchTarget(expiry_date) ==
    FilePath(FolderPath(BaseDir, calculate_date_range(expiry_date).year, NIFTY, FUTIDX),
             FileName(NIFTY, FUTIDX, expiry_date,
                      calculate_date_range(expiry_date).start,
                      calculate_date_range(expiry_date).end))

FetchDisks(expiry_date) ==
    {{},
     {[path |-> FetchTarget(expiry_date), content |-> TextContent("older")]},
     {[path |-> FetchTarget(expiry_date), content |-> TextContent(CsvBody)]},
     {[path |-> FetchTarget(expiry_date),
       content |-> TableContent(DataFrame(<<RecordA, RecordB>>))]},
     {[path |-> FilePath(<<BaseDir>>, <<"x">>), content |-> TextContent("other")]}}

NoDownload ==
    [result |-> "none", path |-> NoPath, dirs |-> {}, files |-> {},
     requests |-> <<>>, wrote |-> FALSE]

\* the directories a disk with these files has
DirsOf(disk_files) == UNION {MakeDirs({}, f.path.dir) : f \in disk_files}

\* the cookie store after initialize_session: the browser gave none, or two
SessionJars == {{}, {<<"nsit", "a">>, <<"nseappid", "b">>}}

\* the call is made with the session initialize_session built
InitFetch ==
    /\ pc = "probe"
    /\ calls = 0
    /\ year = 0
    /\ symbol = NIFTY
    /\ test_single = FALSE
    /\ init_ok = "True"
    /\ cookies \in SessionJars
    /\ headers_set = TRUE
    /\ builds = 1
    /\ requests = <<>>
    /\ resolved = <<>>
    /\ expiry_dates = <<>>
    /\ idx = 0
    /\ success_count = 0
    /\ dirs = {}
    /\ files = {}
    /\ ret = "none"
    /\ driver = "running"
    /\ session = "open"
    /\ log = <<>>
    /\ \E expiry_date \in {Expiry1, Expiry2}, env \in FetchEnvs :
       \E disk \in FetchDisks(expiry_date) :
         /\ Realisable(env, DirsOf(disk), FetchTarget(expiry_date).dir)
         /\ probe = [fn |-> "download_csv_data", done |-> FALSE,
                     in |-> [expiry |-> expiry_date, env |-> env,
                             dirs |-> DirsOf(disk), files |-> disk],
                     out |-> NoDownload]

ApplyFetch ==
    /\ probe.fn = "download_csv_data"
    /\ ~probe.done
    /\ \E window \in {calculate_date_range(probe.in.expiry)} :
         probe' = [probe EXCEPT
                     !.done = TRUE,
                     !.out = download_csv_data(probe.in.expiry, window.start,
                                               window.end, window.year, FUTIDX, NIFTY,
                                               BaseDir, probe.in.env, probe.in.dirs,
                                               probe.in.files, cookies, headers_set)]
    /\ UNCHANGED runVars

SpecFetch == InitFetch /\ [][ApplyFetch]_vars

(***************************************************************************)
(* Two process_year runs in separate processes storing under the same base *)
(* directory.  Each run goes through the expiries the upstream gave it;    *)
(* every answer is a usable CSV answer.  A store is two steps of the       *)
(* process: open(filepath, 'w') empties the file, then the body is written *)
(* from the start of the file and the file is closed; steps of the two     *)
(* processes interleave.  Before its loop a run creates the base directory *)
(* in two steps as well: os.path.exists, then os.makedirs without          *)
(* exist_ok, which raises FileExistsError when the other run made the      *)
(* directory in between.  A body and the content of a file are texts of   *)
(* one-byte characters: a write replaces bytes, not lines.                 *)
(***************************************************************************)
\* the expiry lists the upstream gives a run
UpstreamLists == {<<Expiry1>>, <<Expiry2>>, <<Expiry1, Expiry2>>}

\* the bodies the upstream answers with
\* "h\naaa1\na2\n" and "h\nb1\n": rows of different lengths
Bodies ==
    {<<"h", "\n", "a", "a", "a", "1", "\n", "a", "2", "\n">>,
     <<"h", "\n", "b", "1", "\n">>}

\* the lines of a text, each without its line end
RECURSIVE LinesOf(_, _)
LinesOf(t, line) ==
    IF Len(t) = 0 THEN (IF Len(line) = 0 THEN <<>> ELSE <<line>>)
    ELSE IF Head(t) = "\n" THEN <<line>> \o LinesOf(Tail(t), <<>>)
    ELSE LinesOf(Tail(t), Append(line, Head(t)))

\* one run: its arguments, its expiries, the iterations done, the path it
\* holds open (NoPath: none) with the body to write, the paths it opened
NewRun(yr, sym, dates) ==
    [year |-> yr, symbol |-> sym, instrument |-> FUTIDX, expiry_dates |-> dates,
     pc |-> "check", idx |-> 0, fd |-> NoPath, body |-> <<>>, opened |-> {}]

\* the run left process_year: by FileExistsError, or after its last iteration
Ended(run) ==
    \/ run.pc = "raised"
    \/ run.pc = "loop" /\ run.idx = Len(run.expiry_dates) /\ run.fd = NoPath

\* probe.done: both runs have ended
Settle(p) == [p EXCEPT !.done = \A j \in {1, 2} : Ended(p.runs[j])]

\* lines 239, 264-266 as process_year calls download_csv_data (lines 342-351)
RunTarget(run) ==
    LET expiry_date == run.expiry_dates[run.idx + 1]
        window == calculate_date_range(expiry_date)
    IN  FilePath(FolderPath(BaseDir, window.year, run.symbol, run.instrument),
                 FileName(run.symbol, run.instrument, expiry_date,
                          window.start, window.end))

\* open(filepath, 'w'): the file is created, or emptied
Truncated(shared, path) ==
    IF \E f \in shared : f.path = path
    THEN {IF f.path = path THEN [f EXCEPT !.text = <<>>] ELSE f : f \in shared}
    ELSE shared \cup {[path |-> path, text |-> <<>>, last |-> <<>>]}

\* f.write(response.text) and close by a process whose file position is 0:
\* the body replaces the start of what the file holds by then
Overwritten(shared, path, body) ==
    {IF f.path = path
     THEN [f EXCEPT !.text = body \o SubSeq(f.text, Len(body) + 1, Len(f.text)),
                    !.last = body]
     ELSE f : f \in shared}

InitTwoRuns ==
    /\ pc = "probe"
    /\ calls = 0
    /\ year = 0
    /\ symbol = NIFTY
    /\ test_single = FALSE
    /\ init_ok = "none"
    /\ cookies = {}
    /\ headers_set = FALSE
    /\ builds = 0
    /\ requests = <<>>
    /\ resolved = <<>>
    /\ expiry_dates = <<>>
    /\ idx = 0
    /\ success_count = 0
    /\ dirs = {}
    /\ files = {}
    /\ ret = "none"
    /\ driver = "running"
    /\ session = "open"
    /\ log = <<>>
    /\ \E y1 \in Years, y2 \in Years, s1 \in Symbols, s2 \in Symbols :
       \E l1 \in UpstreamLists, l2 \in UpstreamLists, exists \in BOOLEAN :
         probe = [fn |-> "process_year twice", done |-> FALSE,
                  runs |-> <<NewRun(y1, s1, l1), NewRun(y2, s2, l2)>>,
                  base |-> exists,
                  shared |-> {}]

\* line 229 in run i: os.path.exists(base_dir)
RunChecks(i) ==
    /\ probe.fn = "process_year twice"
    /\ probe.runs[i].pc = "check"
    /\ probe' = [probe EXCEPT !.runs[i].pc = IF probe.base THEN "loop" ELSE "make"]
    /\ UNCHANGED runVars

\* line 230 in run i: os.makedirs(base_dir); FileExistsError leaves
\* process_year (line 322 is outside any try)
RunMakes(i) ==
    /\ probe.fn = "process_year twice"
    /\ probe.runs[i].pc = "make"
    /\ probe' = Settle([probe EXCEPT
                          !.runs[i].pc = IF probe.base THEN "raised" ELSE "loop",
                          !.base = TRUE])
    /\ UNCHANGED runVars

\* line 269 in run i: the answer has arrived, the file is opened for writing
RunOpens(i) ==
    /\ probe.fn = "process_year twice"
    /\ probe.runs[i].pc = "loop"
    /\ probe.runs[i].idx < Len(probe.runs[i].expiry_dates)
    /\ probe.runs[i].fd = NoPath
    /\ \E body \in Bodies :
       \E path \in {RunTarget(probe.runs[i])} :
         probe' = [probe EXCEPT
                     !.runs[i].fd = path,
                     !.runs[i].body = body,
                     !.runs[i].opened = @ \cup {path},
                     !.shared = Truncated(@, path)]
    /\ UNCHANGED runVars

\* line 270 in run i: the body is written and the file closed
RunWrites(i) ==
    /\ probe.fn = "process_year twice"
    /\ probe.runs[i].fd # NoPath
    /\ probe' = Settle([probe EXCEPT
                          !.runs[i].fd = NoPath,
                          !.runs[i].body = <<>>,
                          !.runs[i].idx = @ + 1,
                          !.shared = Overwritten(@, probe.runs[i].fd, probe.runs[i].body)])
    /\ UNCHANGED runVars

NextTwoRuns == \E i \in {1, 2} : RunChecks(i) \/ RunMakes(i) \/ RunOpens(i) \/ RunWrites(i)

SpecTwoRuns == InitTwoRuns /\ [][NextTwoRuns]_vars

(***************************************************************************)
(* Properties of a run                                                     *)
(***************************************************************************)
Returned == pc = "exited" /\ ret \in {"True", "False"}

Iterations == 1..Len(log)

\* the iterations whose expiry was fetched and whose file was written
Stored == {k \in Iterations : log[k].wrote}

\* the iterations process_year counted as a success
Counted == {k \in Iterations : log[k].result = "path"}

\* C1: process_year returns true if and only if at least one resolved expiry
\* was fetched and stored during the run.
C1_TrueIffSomeExpiryStored ==
    Returned => (ret = "True" <=> Stored # {})

\* C2: a run over pairwise distinct expiries, none failing before the fetch
\* stage, returns true when one succeeded, and ends with exactly one file
\* per expiry counted as a success and no file for an expiry counted as a
\* failure (the run being the first call on the scraper: the disk held no
\* file when it began).
C2_OneFilePerCountedSuccess ==
    (/\ Returned
     /\ calls = 1
     /\ ~test_single
     /\ Len(log) >= 1
     /\ \A j, k \in Iterations : j # k => log[j].expiry # log[k].expiry
     /\ \A k \in Iterations : log[k].window.ok)
    => /\ Counted # {} => ret = "True"
       /\ Cardinality(files) = Cardinality(Counted)
       /\ \A k \in Iterations :
            log[k].result = "path" <=> FileAt(files, log[k].path) # {}

\* C3: initialize_session reports success only when at least one cookie was
\* copied into the HTTP client; an empty cookie jar is a failure.
C3_SuccessNeedsCookie == init_ok = "True" => cookies # {}

\* C4: the session is built exactly once in each process_year call, before
\* any request; every request of the call is sent with that same session;
\* after a failed build process_year returns false with no request issued,
\* no file written (no iteration is made, and in a first call the disk holds
\* no file) and no second build.
C4_SessionBuiltOnceAndReused ==
    /\ builds \in {calls - 1, calls}
    /\ requests # <<>> => builds = calls /\ init_ok = "True"
    /\ \A k \in 1..Len(requests) :
         requests[k].cookies = cookies /\ requests[k].headers
    /\ init_ok = "False" =>
         /\ ret = "False"
         /\ builds = calls
         /\ requests = <<>>
         /\ log = <<>>
         /\ calls = 1 => files = {}
         /\ pc \in {"finally", "exited"}

\* a run that built the session once and sent three requests with it
C4_Witness ==
    /\ pc = "exited"
    /\ calls = 1
    /\ builds = 1
    /\ Len(requests) = 3
    /\ cookies # {}
    /\ requests[1].endpoint = "expireDts"
    /\ requests[3].endpoint = "foCPV"

C6_DiskFaultNeverRaises ==
    \A k \in Iterations :
        log[k].env.fault # "none" => log[k].result = "None" /\ ret # "raise"

(***************************************************************************)
(* Properties of download_csv_data                                         *)
(***************************************************************************)
Fetched == probe.fn = "download_csv_data" /\ probe.done

Is2xx(resp) == resp.net = "ok" /\ resp.status >= 200 /\ resp.status <= 299

\* a non-CSV 2xx answer whose JSON body holds a non-empty list under `data`
KeyedRecordsAnswer(resp) ==
    /\ Is2xx(resp)
    /\ ~IsCsvResponse(resp)
    /\ resp.json.t = "dict"
    /\ \E k \in 1..Len(resp.json.keys) :
         /\ resp.json.keys[k] = "data"
         /\ resp.json.vals[k].t = "list"
         /\ resp.json.vals[k].vals # <<>>

\* the records of such an answer
RecordsOf(resp) ==
    resp.json.vals[CHOOSE k \in 1..Len(resp.json.keys) : resp.json.keys[k] = "data"].vals

\* C7: download_csv_data succeeds for every non-CSV 2xx answer whose `data`
\* is a non-empty list of keyed records, whatever their field names: the
\* stored table has one row per record, in order, under the records' keys.
C7_KeyedRecordsSucceed ==
    (Fetched /\ probe.in.env.fault = "none" /\ KeyedRecordsAnswer(probe.in.env.resp))
    => /\ probe.out.result = "path"
       /\ \E f \in probe.out.files :
            /\ f.path = probe.out.path
            /\ f.content.kind = "table"
            /\ Len(f.content.rows) = Len(RecordsOf(probe.in.env.resp))
            /\ \A r \in 1..Len(f.content.rows), c \in 1..Len(f.content.columns) :
                 LET rec == RecordsOf(probe.in.env.resp)[r] IN
                 \A k \in 1..Len(rec.keys) :
                    rec.keys[k] = f.content.columns[c]
                        => f.content.rows[r][c] = rec.vals[k]

\* a non-2xx status, a transport error, malformed JSON, JSON without `data`,
\* or `data` that is empty or no list
BadAnswer(resp) ==
    \/ ~Is2xx(resp)
    \/ /\ ~IsCsvResponse(resp)
       /\ ~KeyedRecordsAnswer(resp)

\* C8: for every such answer download_csv_data returns None without raising
\* and writes nothing: the disk is as it was, so no file appears at the
\* target path.
C8_BadAnswersFailAndWriteNothing ==
    (Fetched /\ probe.in.env.fault = "none" /\ BadAnswer(probe.in.env.resp))
    => /\ probe.out.result = "None"
       /\ ~probe.out.wrote
       /\ probe.out.files = probe.in.files
       /\ (FileAt(probe.in.files, probe.out.path) = {}
             => FileAt(probe.out.files, probe.out.path) = {})

(***************************************************************************)
(* Properties of get_expiry_dates                                          *)
(***************************************************************************)
Resolved == probe.fn = "get_expiry_dates" /\ probe.done

\* the positions in ExpiryKeys of the keys the body has
PresentKeys(body) ==
    {p \in 1..Len(ExpiryKeys) :
        \E k \in 1..Len(body.keys) : body.keys[k] = ExpiryKeys[p]}

ValueUnder(body, key) ==
    body.vals[CHOOSE k \in 1..Len(body.keys) : body.keys[k] = key]

\* the value under the first key present, by the priority of ExpiryKeys
FirstValue(body) ==
    ValueUnder(body, ExpiryKeys[CHOOSE p \in PresentKeys(body) :
                                   \A q \in PresentKeys(body) : p <= q])

\* C9: get_expiry_dates returns the value under the first key present among
\* expiryDt, expiresDts, expiryDates, whatever lower-priority keys hold, and
\* an empty list when none is present or the request fails (network error,
\* a status outside 2xx, unparsable body); it never raises.
C9_ValueUnderFirstKeyAsWritten ==
    Resolved =>
      IF ~Is2xx(probe.in) \/ probe.in.json.t # "dict" \/ PresentKeys(probe.in.json) = {}
      THEN probe.out = JList(<<>>)
      ELSE probe.out = FirstValue(probe.in.json)

(***************************************************************************)
(* Properties of calculate_date_range                                      *)
(***************************************************************************)
Windowed == probe.fn = "calculate_date_range" /\ probe.done

\* the days from 31 December of the year 0 to the date, counted year by year
\* and month by month
DayCount(d) ==
    365 * (d.y - 1)
        + Cardinality({yy \in 1..(d.y - 1) : IsLeap(yy)})
        + Cardinality({<<mm, dd>> \in (1..12) \X (1..31) :
                          mm < d.m /\ dd <= DaysInMonth(d.y, mm)})
        + d.d

\* the text has the shape DD-MM-YYYY
DayMonthYearShape(t) ==
    /\ Len(t) = 10
    /\ t[3] = "-" /\ t[6] = "-"
    /\ \A k \in {1, 2, 4, 5, 7, 8, 9, 10} : IsAsciiDigit(t[k])

\* the date such a text denotes
ReadDayMonthYear(t) ==
    [d |-> 10 * DigitVal(t[1]) + DigitVal(t[2]),
     m |-> 10 * DigitVal(t[4]) + DigitVal(t[5]),
     y |-> 1000 * DigitVal(t[7]) + 100 * DigitVal(t[8]) + 10 * DigitVal(t[9])
             + DigitVal(t[10])]

IsCalendarDate(d) == d.m \in 1..12 /\ d.d >= 1 /\ d.d <= DaysInMonth(d.y, d.m)

\* the text is a date of the calendar written day-month-year with dashes,
\* and the days 60 before and 1 after it are dates of the years 1 to 9999
ValidExpiry(input) ==
    /\ input.sep = "-"
    /\ input.d >= 1 /\ input.m >= 1 /\ input.y >= 1
    /\ input.d <= DaysInMonth(input.y, input.m)
    /\ DayCount([y |-> input.y, m |-> input.m, d |-> input.d]) > 60
    /\ ~(input.y = 9999 /\ input.m = 12 /\ input.d = 31)

\* C10: for a valid expiry text the window starts 60 days before the expiry
\* and ends 1 day after it (61 days apart), both written DD-MM-YYYY, with
\* the expiry's own year; for any other text the result is the failure
\* triple.
C10_WindowIsSixtyBeforeOneAfter ==
    Windowed =>
      IF ValidExpiry(probe.in)
      THEN LET expiry == [y |-> probe.in.y, m |-> probe.in.m, d |-> probe.in.d]
               start == ReadDayMonthYear(probe.out.start)
               end == ReadDayMonthYear(probe.out.end)
           IN  /\ probe.out.ok
               /\ DayMonthYearShape(probe.out.start)
               /\ DayMonthYearShape(probe.out.end)
               /\ IsCalendarDate(start)
               /\ IsCalendarDate(end)
               /\ DayCount(expiry) - DayCount(start) = 60
               /\ DayCount(end) - DayCount(expiry) = 1
               /\ DayCount(end) - DayCount(start) = 61
               /\ probe.out.year = probe.in.y
      ELSE probe.out = WindowFailure

(***************************************************************************)
(* Properties of the loop of process_year                                  *)
(***************************************************************************)
\* the expiries the loop is to go through: the resolved ones, in the
\* resolver's order, or only the first of them in testing mode
Selected == IF test_single /\ Len(resolved) >= 1 THEN <<resolved[1]>> ELSE resolved

WindowParses(expiry_date) == calculate_date_range(expiry_date).ok

IsDataRequest(request) == request.endpoint = "foCPV"

\* the expiries of the historical-data requests of the run, in order
RequestedExpiries ==
    LET sent == SelectSeq(requests, IsDataRequest)
    IN  [k \in 1..Len(sent) |-> sent[k].expiryDate]

\* C11: when the run has ended without the user interrupting it, the
\* historical-data requests it issued are, in order and one each, those of
\* the resolved expiries whose dates parse: a failure on one expiry skips
\* only that expiry, the run is not aborted, nothing is retried and every
\* later expiry is still attempted.
C11_OneRequestPerParsedExpiryInOrder ==
    pc = "exited" /\ ret # "interrupt" =>
      /\ RequestedExpiries = SelectSeq(Selected, WindowParses)
      /\ init_ok = "True" /\ resolved # <<>> =>
           /\ ret # "raise"
           /\ [k \in 1..Len(log) |-> log[k].expiry] = Selected

\* C12: in testing mode a request is issued and a file stored for at most the
\* first resolved expiry and for no other one, however many were resolved;
\* otherwise every resolved expiry is processed, unless the user interrupts
\* the run.
C12_TestSingleOnlyFirst ==
    /\ test_single =>
         /\ Len(RequestedExpiries) <= 1
         /\ \A k \in 1..Len(RequestedExpiries) : RequestedExpiries[k] = resolved[1]
         /\ Len(log) <= 1
         /\ \A k \in Iterations : log[k].expiry = resolved[1]
         /\ Cardinality(Stored) <= 1
         /\ calls = 1 =>
              \A f \in files : \E k \in Stored : log[k].path = f.path
    /\ ~test_single /\ pc = "exited" /\ ret # "interrupt" =>
         [k \in 1..Len(log) |-> log[k].expiry] = resolved

(***************************************************************************)
(* Properties of the stored file                                           *)
(***************************************************************************)
\* the pieces of a text between the separators
RECURSIVE SplitOn(_, _, _)
SplitOn(t, sep, piece) ==
    IF Len(t) = 0 THEN <<piece>>
    ELSE IF Head(t) = sep THEN <<piece>> \o SplitOn(Tail(t), sep, <<>>)
    ELSE SplitOn(Tail(t), sep, Append(piece, Head(t)))

RECURSIVE JoinWith(_, _)
JoinWith(pieces, sep) ==
    IF Len(pieces) = 0 THEN <<>>
    ELSE IF Len(pieces) = 1 THEN pieces[1]
    ELSE pieces[1] \o <<sep>> \o JoinWith(Tail(pieces), sep)

\* {baseDir}/{year}/{symbol}/{instrument}/
\*   {symbol}_{instrument}_{expiry}_{start}_to_{end}.csv, every "-" written "_"
TargetPath(base_dir, yr, sym, instrument, expiry_date, start_date, end_date) ==
    [dir |-> <<base_dir, Digits(yr), sym, instrument>>,
     name |-> JoinWith(<<sym, instrument>>
                         \o SplitOn(expiry_date, "-", <<>>)
                         \o SplitOn(start_date, "-", <<>>)
                         \o << <<"t", "o">> >>
                         \o SplitOn(end_date, "-", <<>>), "_")
               \o <<".", "c", "s", "v">>]

\* what a usable answer carries: the body of a CSV answer, the rows of a
\* JSON answer
HoldsPayloadOf(content, resp) ==
    IF IsCsvResponse(resp)
    THEN content.kind = "text" /\ content.text = resp.text
    ELSE /\ content.kind = "table"
         /\ Len(content.rows) = Len(RecordsOf(resp))

\* the text begins with the other one and is longer
LeadingPartOf(part, whole) ==
    Len(part) < Len(whole) /\ SubSeq(whole, 1, Len(part)) = part

\* the file a JSON answer is stored as: the keys of the records in a first
\* line, then a line of values for each record
RECURSIVE RecordLines(_)
RecordLines(records) ==
    IF Len(records) = 0 THEN ""
    ELSE CsvLine(records[1].vals) \o RecordLines(Tail(records))

\* less than the payload of the answer, and nothing else: what a failed
\* write leaves (a leading part of the bytes, down to none of them)
HoldsPartOf(content, resp) ==
    /\ content.kind = "text"
    /\ IF IsCsvResponse(resp)
       THEN LeadingPartOf(content.text, resp.text)
       ELSE /\ \A r \in 1..Len(RecordsOf(resp)) :
                 RecordsOf(resp)[r].keys = RecordsOf(resp)[1].keys
            /\ LeadingPartOf(content.text,
                             CsvLine(RecordsOf(resp)[1].keys)
                               \o RecordLines(RecordsOf(resp)))

\* C13: the path of the stored file is given by the target alone (base
\* directory, year, symbol, instrument, expiry, window), the same for a CSV
\* and for a JSON answer; no call leaves a second file at the path, touches
\* another file or adds to what the path held (a failed write leaves the
\* file with a leading part of this answer's bytes, down to none); a completed store
\* replaces what the path held: one file at the path, holding this answer's
\* payload only, and the disk unchanged when the path already held that
\* same payload.
C13_OnePathPerTargetOverwritten ==
    Fetched =>
      LET in == probe.in
          out == probe.out
          window == calculate_date_range(in.expiry)
      IN  /\ out.path = TargetPath(BaseDir, window.year, NIFTY, FUTIDX, in.expiry,
                                   window.start, window.end)
          /\ Cardinality(FileAt(out.files, out.path)) <= 1
          /\ {f \in out.files : f.path # out.path}
               = {f \in in.files : f.path # out.path}
          /\ \A f \in FileAt(out.files, out.path) :
               \/ f \in in.files
               \/ HoldsPayloadOf(f.content, in.env.resp)
               \/ ~out.wrote /\ HoldsPartOf(f.content, in.env.resp)
          /\ out.wrote =>
               /\ Cardinality(FileAt(out.files, out.path)) = 1
               /\ \A f \in FileAt(out.files, out.path) :
                    HoldsPayloadOf(f.content, in.env.resp)
               /\ {f \in out.files : f.path # out.path}
                    = {f \in in.files : f.path # out.path}
               /\ FileAt(in.files, out.path) # {}
                    => Cardinality(out.files) = Cardinality(in.files)
               /\ (\E f \in FileAt(in.files, out.path) :
                      f \in FileAt(out.files, out.path))
                    => out.files = in.files

\* "25-JAN-2024" stored from a JSON answer where an older CSV file was: the
\* disk holds the one file
\* nse_data/2024/NIFTY/FUTIDX/NIFTY_FUTIDX_25_JAN_2024_26_11_2023_to_26_01_2024.csv,
\* now a table of two rows
C13_Witness ==
    /\ Fetched
    /\ probe.in.expiry = Expiry1
    /\ probe.in.env.resp = JsonOk
    /\ \E f \in probe.in.files : f.content = TextContent(CsvBody)
    /\ probe.out.result = "path"
    /\ Cardinality(probe.out.files) = 1
    /\ \E f \in probe.out.files :
         /\ f.path.dir = << <<"n", "s", "e", "_", "d", "a", "t", "a">>,
                            <<"2", "0", "2", "4">>, <<"N", "I", "F", "T", "Y">>,
                            <<"F", "U", "T", "I", "D", "X">> >>
         /\ f.path.name = <<"N", "I", "F", "T", "Y", "_", "F", "U", "T", "I", "D", "X", "_",
                            "2", "5", "_", "J", "A", "N", "_", "2", "0", "2", "4", "_",
                            "2", "6", "_", "1", "1", "_", "2", "0", "2", "3", "_",
                            "t", "o", "_",
                            "2", "6", "_", "0", "1", "_", "2", "0", "2", "4",
                            ".", "c", "s", "v">>
         /\ f.content.kind = "table"
         /\ Len(f.content.rows) = 2

\* a file of no byte, or a table of no row
EmptyContent(content) ==
    IF content.kind = "text" THEN content.text = "" ELSE content.rows = <<>>

\* C15: every file download_csv_data stores holds a non-empty payload: an
\* answer with an empty body is not written and not counted as a success,
\* in the CSV branch as in the JSON branch.
C15_StoredPayloadNonEmpty ==
    Fetched =>
      /\ \A f \in FileAt(probe.out.files, probe.out.path) : ~EmptyContent(f.content)
      /\ probe.in.env.resp.text = "" =>
           probe.out.result # "path" /\ ~probe.out.wrote

(***************************************************************************)
(* Properties of the year of a run                                         *)
(***************************************************************************)
\* C16: every file stored by process_year(year, ...) lies under
\* {baseDir}/{year}/ and every historical-data request carries that year,
\* also when an expiry's own calendar year differs.
C16_CallerYearEverywhere ==
    /\ \A k \in Stored :
         /\ Len(log[k].path.dir) >= 2
         /\ log[k].path.dir[1] = BaseDir
         /\ DigitsVal(log[k].path.dir[2]) = year
         /\ FileAt(files, log[k].path) # {}
    /\ \A k \in 1..Len(requests) :
         IsDataRequest(requests[k]) => requests[k].year = year

(***************************************************************************)
(* Properties of two runs in separate processes                            *)
(***************************************************************************)
TwoRuns == probe.fn = "process_year twice"

RunArguments(run) == <<run.year, run.symbol, run.instrument>>

\* C14: two runs with different (year, symbol, instrument) never write the
\* same file path, whatever expiry lists the upstream returns: only runs
\* with the same arguments meet at a path, and when both have ended every
\* file holds the whole body of its last writer and nothing else.
C14_DifferentArgumentsDifferentFiles ==
    TwoRuns =>
      /\ RunArguments(probe.runs[1]) # RunArguments(probe.runs[2])
           => probe.runs[1].opened \cap probe.runs[2].opened = {}
      /\ probe.done => \A f \in probe.shared : f.text = f.last

====
